---------------------------- MODULE Spec2Model ----------------------------
(***************************************************************************)
(* Model of src/src/main.py: the data fetcher for the Islandsun JSON       *)
(* endpoints.  Four machines share the module:                             *)
(*   fetch_json                        bounded-retry HTTP fetch            *)
(*   write_json                        write to <path>.tmp, then replace   *)
(*   build_last_production_from_stock  latest record per product code      *)
(*   main                              the three endpoint flows            *)
(*                                                                         *)
(* JSON values are tagged records.  Text is a sequence of code points, so  *)
(* that str.strip(), the date parsers and the string order of sort() are   *)
(* computed, not assumed.  Python's None and JSON null are the same value, *)
(* as they are after response.json().                                      *)
(***************************************************************************)
EXTENDS Integers, Sequences, FiniteSets, TLC

----------------------------------------------------------------------------
(* JSON values *)

JNull == [t |-> "null"]
JBool(b) == [t |-> "bool", v |-> b]
JNum(n) == [t |-> "num", v |-> n]
JStr(s) == [t |-> "str", v |-> s]
JList(xs) == [t |-> "list", v |-> xs]
\* an object is its members in insertion order, as a Python dict keeps them
JObj(kv) == [t |-> "obj", v |-> kv]
Member(name, val) == [name |-> name, val |-> val]

None == JNull

\* Python truthiness of a JSON value: None, False, 0, "", [] and {} are falsy
Truthy(x) ==
    CASE x.t = "null" -> FALSE
      [] x.t = "bool" -> x.v
      [] x.t = "num" -> x.v # 0
      [] OTHER -> Len(x.v) > 0

\* dict.get(name) with the default None
RECURSIVE GetFrom(_, _, _)
GetFrom(kv, name, i) ==
    IF i > Len(kv) THEN None
    ELSE IF kv[i].name = name THEN kv[i].val
    ELSE GetFrom(kv, name, i + 1)

Get(obj, name) == GetFrom(obj.v, name, 1)

HasKey(obj, name) == \E i \in 1..Len(obj.v) : obj.v[i].name = name

\* Python's `a or b`
OrElse(a, b) == IF Truthy(a) THEN a ELSE b

----------------------------------------------------------------------------
(* CONFIG / CONSTANTS *)

RETRY_LIMIT == 3
RETRY_DELAY == 5

SAMPLE_REQUEST_FILE == "data/sample_requests.json"
STOCK_REQUEST_FILE == "data/stock_requests.json"
SALES_ORDER_FILE == "data/sales_orders.json"
LAST_PRODUCTION_FILE == "data/last_production.json"

\* the urls dict of main, in insertion order: url -> destination
urls ==
    << [url |-> "samplerequest/json", path |-> SAMPLE_REQUEST_FILE],
       [url |-> "stock-request/json-srs", path |-> STOCK_REQUEST_FILE],
       [url |-> "sales-order/json", path |-> SALES_ORDER_FILE] >>


----------------------------------------------------------------------------
(* Inputs: the bodies an endpoint may answer with *)

\* a record of the stock payload's data list; an absent field is left out
Rec(k, d, c) ==
    JObj((IF k = None THEN <<>> ELSE <<Member("kode_produk", k)>>)
         \o (IF d = None THEN <<>> ELSE <<Member("srs_date", d)>>)
         \o (IF c = None THEN <<>> ELSE <<Member("srs_customer", c)>>))

\* "A1", " B2", "2024-01-10", "2024-02-15", "not-a-date", "X", "Y"
RecA1 == Rec(JStr(<<65, 49>>), JStr(<<50, 48, 50, 52, 45, 48, 49, 45, 49, 48>>), JStr(<<88>>))
RecA1Later == Rec(JStr(<<65, 49>>), JStr(<<50, 48, 50, 52, 45, 48, 50, 45, 49, 53>>), JStr(<<89>>))
RecB2 == Rec(JStr(<<32, 66, 50>>), JStr(<<110, 111, 116, 45, 97, 45, 100, 97, 116, 101>>), None)

StockBody(recs) == JObj(<<Member("data", JList(recs))>>)

\* bodies of any endpoint: every falsy JSON value, and a non-empty list
PlainBodies == {JNull, JBool(FALSE), JNum(0), JList(<<>>), JObj(<<>>), JList(<<JNum(1)>>)}

\* bodies of the stock endpoint: data lists of records, a data list with a
\* non-object entry, and a data field that is not a list
StockBodies ==
    {JNull, JObj(<<>>), JObj(<<Member("data", JNum(0))>>),
     StockBody(<<>>), StockBody(<<RecA1>>), StockBody(<<RecA1, RecA1Later>>),
     StockBody(<<RecB2, RecA1Later, RecA1>>), StockBody(<<RecA1, JNum(7)>>)}

Bodies(url) == IF url = urls[2].url THEN StockBodies ELSE PlainBodies

----------------------------------------------------------------------------
(* State *)

VARIABLES
    \* fetch_json
    f_pc,       \* "Idle", "Attempting", "RetryWait", "Success",
                \* "PermanentFailure", "TransientFailure"
    f_url,      \* the url argument
    attempt,    \* the loop variable, 1..RETRY_LIMIT
    f_ret,      \* the return value: the payload, or None
    f_hist,     \* what each attempt so far met, in order
    f_slept,    \* seconds spent in time.sleep
    \* the files under data/, and write_json
    fs,         \* path -> file
    w_pc,       \* "idle", "open", "dump", "replace", "done", "raised",
                \* "crashed"
    w_path,     \* the path argument
    w_obj,      \* the obj argument
    w_old,      \* the files as they were when write_json was called
    \* read_json
    l_pc,       \* "idle", "returned", "raised"
    l_path,     \* the path argument
    l_ret,      \* the return value
    \* build_last_production_from_stock
    r_pc,       \* "idle", "loop", "done", "raised"
    entries,    \* the entries of stock_json["data"] the loop has taken
    latest_map, \* the dict, as its items in insertion order
    r_out,      \* the list returned
    \* main
    m_pc,       \* "idle", "loop", "fetch", "save", "save_derived", "exited"
    flow,       \* the place in urls of the flow at hand
    data,       \* what fetch_json returned for it
    all_ok,
    exit_status, \* the status the process ends with, -1 while it runs
    fetched,    \* per flow: how its fetch ended, what it returned, and
                \* what main printed about the derived file
    fs0         \* the files as they were when the run began

fetchVars == <<f_pc, f_url, attempt, f_ret, f_hist, f_slept>>
loadVars == <<l_pc, l_path, l_ret>>
storeVars == <<fs, w_pc, w_path, w_obj, w_old, loadVars>>
reduceVars == <<r_pc, entries, latest_map, r_out>>
mainVars == <<m_pc, flow, data, all_ok, exit_status, fetched, fs0>>

vars == <<fetchVars, storeVars, reduceVars, mainVars>>

----------------------------------------------------------------------------
(* FETCHING: fetch_json *)

TransientErrors == {"Timeout", "ConnectionError"}
PermanentErrors == {"HTTPError", "RequestException", "JSONDecodeError"}

Met(kind, body) == [kind |-> kind, body |-> body]

FetchIdle ==
    /\ f_pc = "Idle"
    /\ f_url = ""
    /\ attempt = 0
    /\ f_ret = None
    /\ f_hist = <<>>
    /\ f_slept = 0

\* the call: the loop starts at attempt 1
fetch_json(url) ==
    /\ f_pc' = "Attempting"
    /\ f_url' = url
    /\ attempt' = 1
    /\ f_ret' = None
    /\ f_hist' = <<>>
    /\ f_slept' = 0

\* lines 115-117: the request succeeds, the status is good and the body is
\* JSON: return response.json()
AttemptOk ==
    /\ f_pc = "Attempting"
    /\ \E body \in Bodies(f_url) :
        /\ f_hist' = Append(f_hist, Met("ok", body))
        /\ f_ret' = body
    /\ f_pc' = "Success"
    /\ UNCHANGED <<f_url, attempt, f_slept>>

\* an off-by-one retry test: one attempt too many
RetryAfterOffByOne(n) == n <= RETRY_LIMIT

\* does the loop go round again after a transient error on this attempt
RetryAfter(n) == n < RETRY_LIMIT

\* lines 118-121 and 132-135: a timeout or a connection error is printed and
\* the loop goes on; after the last attempt the loop ends and None is returned
AttemptTransient ==
    /\ f_pc = "Attempting"
    /\ \E kind \in TransientErrors : f_hist' = Append(f_hist, Met(kind, None))
    /\ IF RetryAfter(attempt)
       THEN f_pc' = "RetryWait" /\ f_ret' = f_ret
       ELSE f_pc' = "TransientFailure" /\ f_ret' = None
    /\ UNCHANGED <<f_url, attempt, f_slept>>

\* a delay that grows with the attempts
RetrySleepBackoff ==
    /\ f_pc = "RetryWait"
    /\ f_slept' = f_slept + RETRY_DELAY * attempt
    /\ attempt' = attempt + 1
    /\ f_pc' = "Attempting"
    /\ UNCHANGED <<f_url, f_ret, f_hist>>

\* line 133: time.sleep(RETRY_DELAY), then the next attempt
RetrySleep ==
    /\ f_pc = "RetryWait"
    /\ f_slept' = f_slept + RETRY_DELAY
    /\ attempt' = attempt + 1
    /\ f_pc' = "Attempting"
    /\ UNCHANGED <<f_url, f_ret, f_hist>>

\* a handler without its break: the error is retried like a transient one
AfterPermanentNoBreak == "RetryWait"

\* where an error that is not transient leaves the loop
AfterPermanent == "PermanentFailure"

\* lines 122-130 and 135: an HTTP error status, another request exception or
\* a body that is not JSON breaks out of the loop; None is returned
AttemptPermanent ==
    /\ f_pc = "Attempting"
    /\ \E kind \in PermanentErrors : f_hist' = Append(f_hist, Met(kind, None))
    /\ f_pc' = AfterPermanent
    /\ f_ret' = None
    /\ UNCHANGED <<f_url, attempt, f_slept>>

FetchReturned == f_pc \in {"Success", "PermanentFailure", "TransientFailure"}

FetchStep == AttemptOk \/ AttemptTransient \/ RetrySleep \/ AttemptPermanent

----------------------------------------------------------------------------
(* UTILITIES: the files, json.dump and write_json *)

FinalPaths ==
    {SAMPLE_REQUEST_FILE, STOCK_REQUEST_FILE, SALES_ORDER_FILE,
     LAST_PRODUCTION_FILE}

\* a write in place: no temporary file
TmpOfInPlace(path) == path

\* line 62: path.with_suffix(path.suffix + ".tmp")
TmpOf(path) == path \o ".tmp"

AllPaths == FinalPaths \cup {TmpOf(p) : p \in FinalPaths}

\* a file is the text written to it so far, as a sequence of JSON tokens
Absent == [there |-> FALSE, text |-> <<>>]
File(text) == [there |-> TRUE, text |-> text]

\* a piece of a document: its kind, its text, and for a member name the name
Tok(k, s) == [k |-> k, s |-> s, n |-> ""]
Punct(c) == Tok(c, <<>>)
Key(name) == [k |-> "key", s |-> <<>>, n |-> name]

\* a string written as it is, without escapes
EscapeNothing(s) == s

\* the hexadecimal digit of n < 16, as '%x' writes it
HexDigit(n) == IF n < 10 THEN 48 + n ELSE 87 + n

\* json.encoder.encode_basestring (ensure_ascii=False): the text between the
\* quotes; " and \ and the control characters are escaped
RECURSIVE Escape(_)
Escape(s) ==
    IF s = <<>> THEN <<>>
    ELSE LET c == Head(s)
         IN (CASE c = 34 -> <<92, 34>>
               [] c = 92 -> <<92, 92>>
               [] c = 8 -> <<92, 98>>
               [] c = 12 -> <<92, 102>>
               [] c = 10 -> <<92, 110>>
               [] c = 13 -> <<92, 114>>
               [] c = 9 -> <<92, 116>>
               [] c < 32 /\ c \notin {8, 9, 10, 12, 13} ->
                    <<92, 117, 48, 48, HexDigit(c \div 16), HexDigit(c % 16)>>
               [] OTHER -> <<c>>)
            \o Escape(Tail(s))

\* int.__repr__: the decimal digits, with a sign for a negative number
RECURSIVE Repr(_)
Repr(n) ==
    IF n >= 10 THEN Append(Repr(n \div 10), 48 + (n % 10))
    ELSE IF n >= 0 THEN <<48 + n>>
    ELSE <<45>> \o Repr(0 - n)

\* json.dump(obj, f, ensure_ascii=False, indent=2): the document as the
\* tokens written one after the other (white space and indentation left out);
\* a literal, a number and a string are written as their text, a member name
\* as the name
RECURSIVE Dump(_), DumpItems(_, _), DumpMembers(_, _)
Dump(x) ==
    CASE x.t = "null" -> <<Tok("word", <<110, 117, 108, 108>>)>>
      [] x.t = "bool" ->
            <<Tok("word", IF x.v THEN <<116, 114, 117, 101>>
                          ELSE <<102, 97, 108, 115, 101>>)>>
      [] x.t = "num" -> <<Tok("num", Repr(x.v))>>
      [] x.t = "str" -> <<Tok("str", Escape(x.v))>>
      [] x.t = "list" -> <<Punct("[")>> \o DumpItems(x.v, 1) \o <<Punct("]")>>
      [] x.t = "obj" -> <<Punct("{")>> \o DumpMembers(x.v, 1) \o <<Punct("}")>>

DumpItems(xs, i) ==
    IF i > Len(xs) THEN <<>>
    ELSE (IF i > 1 THEN <<Punct(",")>> ELSE <<>>)
         \o Dump(xs[i]) \o DumpItems(xs, i + 1)

DumpMembers(kv, i) ==
    IF i > Len(kv) THEN <<>>
    ELSE (IF i > 1 THEN <<Punct(",")>> ELSE <<>>)
         \o <<Key(kv[i].name), Punct(":")>>
         \o Dump(kv[i].val) \o DumpMembers(kv, i + 1)

LoadIdle ==
    /\ l_pc = "idle"
    /\ l_path = ""
    /\ l_ret = None

StoreIdle ==
    /\ w_pc = "idle"
    /\ w_path = ""
    /\ w_obj = None
    /\ w_old = fs
    /\ LoadIdle

\* the call of write_json(path, obj)
write_json(path, obj) ==
    /\ w_pc' = "open"
    /\ w_path' = path
    /\ w_obj' = obj
    /\ w_old' = fs
    /\ fs' = fs
    /\ UNCHANGED loadVars

\* line 63: tmp.open("w") creates the temporary file, or empties it
WOpen ==
    /\ w_pc = "open"
    /\ fs' = [fs EXCEPT ![TmpOf(w_path)] = File(<<>>)]
    /\ w_pc' = "dump"
    /\ UNCHANGED <<w_path, w_obj, w_old, loadVars>>

\* line 63: the open raises (OSError); nothing was written
WOpenRaises ==
    /\ w_pc = "open"
    /\ w_pc' = "raised"
    /\ UNCHANGED <<fs, w_path, w_obj, w_old, loadVars>>

\* line 64: json.dump writes the next piece of the document to the temporary
\* file; after the last piece the with block closes the file
WDump ==
    /\ w_pc = "dump"
    /\ LET tmp == TmpOf(w_path)
           doc == Dump(w_obj)
           n == Len(fs[tmp].text) + 1
       IN /\ fs' = [fs EXCEPT ![tmp] = File(Append(fs[tmp].text, doc[n]))]
          /\ w_pc' = IF n = Len(doc) THEN "replace" ELSE "dump"
    /\ UNCHANGED <<w_path, w_obj, w_old, loadVars>>

\* line 64: a write or the serialization raises; the with block closes the
\* temporary file with what was written so far
WDumpRaises ==
    /\ w_pc = "dump"
    /\ w_pc' = "raised"
    /\ UNCHANGED <<fs, w_path, w_obj, w_old, loadVars>>

\* line 65: tmp.replace(path), one rename
WReplace ==
    /\ w_pc = "replace"
    /\ fs' = [fs EXCEPT ![w_path] = fs[TmpOf(w_path)],
                        ![TmpOf(w_path)] = Absent]
    /\ w_pc' = "done"
    /\ UNCHANGED <<w_path, w_obj, w_old, loadVars>>

\* line 65: the rename raises (OSError); no file changes
WReplaceRaises ==
    /\ w_pc = "replace"
    /\ w_pc' = "raised"
    /\ UNCHANGED <<fs, w_path, w_obj, w_old, loadVars>>

\* the process is killed in the middle of write_json
WCrash ==
    /\ w_pc \in {"open", "dump", "replace"}
    /\ w_pc' = "crashed"
    /\ UNCHANGED <<fs, w_path, w_obj, w_old, loadVars>>

WriteStep ==
    \/ WOpen \/ WOpenRaises \/ WDump \/ WDumpRaises \/ WReplace
    \/ WReplaceRaises

----------------------------------------------------------------------------
(* DERIVED DATA: text, dates *)

\* str.isspace() for the code points below 256
IsSpace(c) == c \in {9, 10, 11, 12, 13, 28, 29, 30, 31, 32, 133, 160}

RECURSIVE LStrip(_), RStrip(_)
LStrip(s) == IF s # <<>> /\ IsSpace(Head(s)) THEN LStrip(Tail(s)) ELSE s
RStrip(s) ==
    IF s # <<>> /\ IsSpace(s[Len(s)]) THEN RStrip(SubSeq(s, 1, Len(s) - 1))
    ELSE s

\* str.strip()
Strip(s) == LStrip(RStrip(s))

RECURSIVE Digits(_)
Digits(n) == IF n < 10 THEN <<48 + n>> ELSE Append(Digits(n \div 10), 48 + (n % 10))

\* str(x) of a string, of a number that is not negative and of True
Str(x) ==
    CASE x.t = "str" -> x.v
      [] x.t = "num" -> Digits(x.v)
      [] x.t = "bool" /\ x.v -> <<84, 114, 117, 101>>

\* the < of two Python strings: by code point, a proper prefix first
RECURSIVE StrLess(_, _)
StrLess(a, b) ==
    IF b = <<>> THEN FALSE
    ELSE IF a = <<>> THEN TRUE
    ELSE IF Head(a) # Head(b) THEN Head(a) < Head(b)
    ELSE StrLess(Tail(a), Tail(b))

IsDigit(c) == c \in 48..57

AllDigits(s, i, j) == \A n \in i..j : IsDigit(s[n])

RECURSIVE NumberAt(_, _, _)
NumberAt(s, i, j) ==
    IF j < i THEN 0 ELSE 10 * NumberAt(s, i, j - 1) + (s[j] - 48)

IsLeap(y) == (y % 4 = 0 /\ y % 100 # 0) \/ y % 400 = 0

DaysIn(y, m) ==
    IF m = 2 THEN (IF IsLeap(y) THEN 29 ELSE 28)
    ELSE IF m \in {4, 6, 9, 11} THEN 30 ELSE 31

\* datetime.date(y, m, d) raises ValueError outside these ranges
ValidDate(y, m, d) == y \in 1..9999 /\ m \in 1..12 /\ d \in 1..DaysIn(y, m)

\* a date; dates compare as their (year, month, day)
Date(y, m, d) == [t |-> "date", v |-> 10000 * y + 100 * m + d]

\* HH[:MM[:SS]] from position i to the end of s
IsoTime(s, i) ==
    /\ Len(s) - i + 1 \in {2, 5, 8}
    /\ AllDigits(s, i, i + 1) /\ NumberAt(s, i, i + 1) < 24
    /\ Len(s) >= i + 4 =>
        s[i + 2] = 58 /\ AllDigits(s, i + 3, i + 4) /\ NumberAt(s, i + 3, i + 4) < 60
    /\ Len(s) >= i + 7 =>
        s[i + 5] = 58 /\ AllDigits(s, i + 6, i + 7) /\ NumberAt(s, i + 6, i + 7) < 60

\* line 172: datetime.fromisoformat(date_raw).date(), None where it raises.
\* YYYY-MM-DD, alone or followed by one separator and HH[:MM[:SS]] (the forms
\* with fractions of a second or a UTC offset, and the compact and week
\* forms that Python 3.11 added, are not among the inputs)
FromIsoFormat(s) ==
    IF /\ Len(s) >= 10
       /\ AllDigits(s, 1, 4) /\ s[5] = 45
       /\ AllDigits(s, 6, 7) /\ s[8] = 45
       /\ AllDigits(s, 9, 10)
       /\ ValidDate(NumberAt(s, 1, 4), NumberAt(s, 6, 7), NumberAt(s, 9, 10))
       /\ Len(s) = 10 \/ (Len(s) >= 13 /\ IsoTime(s, 12))
    THEN Date(NumberAt(s, 1, 4), NumberAt(s, 6, 7), NumberAt(s, 9, 10))
    ELSE None

\* the text of a %m or %d field: one or two digits, or (for %d) a space and
\* a digit; never "0" or "00"
FieldOk(s, i, j, spaceOk) ==
    \/ j = i /\ s[i] \in 49..57
    \/ j = i + 1 /\ AllDigits(s, i, j) /\ NumberAt(s, i, j) > 0
    \/ j = i + 1 /\ spaceOk /\ s[i] = 32 /\ s[j] \in 49..57

FieldVal(s, i, j) == IF s[i] = 32 THEN s[j] - 48 ELSE NumberAt(s, i, j)

\* line 176: datetime.strptime(date_raw, "%Y-%m-%d").date(), None where it
\* raises: four digits, "-", a month, "-", a day, and nothing else
Strptime(s) ==
    IF Len(s) \in 8..10 /\ AllDigits(s, 1, 4) /\ s[5] = 45
    THEN LET dash == IF s[7] = 45 THEN 7 ELSE 8
         IN IF /\ s[dash] = 45
               /\ Len(s) - dash \in 1..2
               /\ FieldOk(s, 6, dash - 1, FALSE)
               /\ FieldOk(s, dash + 1, Len(s), TRUE)
               /\ ValidDate(NumberAt(s, 1, 4), FieldVal(s, 6, dash - 1),
                            FieldVal(s, dash + 1, Len(s)))
            THEN Date(NumberAt(s, 1, 4), FieldVal(s, 6, dash - 1),
                      FieldVal(s, dash + 1, Len(s)))
            ELSE None
    ELSE None

\* lines 167-178: date_obj of an entry
ParseDate(e) ==
    LET date_raw == OrElse(Get(e, "srs_date"), JStr(<<>>))
    IN IF date_raw.t = "str" /\ date_raw.v # <<>>
       THEN (IF FromIsoFormat(date_raw.v) # None
             THEN FromIsoFormat(date_raw.v)
             ELSE Strptime(date_raw.v))
       ELSE None

----------------------------------------------------------------------------
(* UTILITIES: json.load and read_json *)

\* a byte that is part of no UTF-8 text (0xff)
BadByte == Tok("byte", <<255>>)

\* f.read() with encoding="utf-8": the bytes of the file decode
Decodes(text) == \A i \in 1..Len(text) : text[i].k # "byte"

Ok(val, next) == [ok |-> TRUE, val |-> val, next |-> next]
Fail == [ok |-> FALSE, val |-> None, next |-> 0]

IsHex(c) == c \in (48..57) \cup (65..70) \cup (97..102)
HexVal(c) == IF c <= 57 THEN c - 48 ELSE IF c <= 70 THEN c - 55 ELSE c - 87

\* json.decoder.scanstring (strict): the string of the text between the
\* quotes from place i on; a quote, a control character or a bad escape in it
\* is a JSONDecodeError (surrogate pairs are left out)
RECURSIVE Unescape(_, _)
Unescape(t, i) ==
    IF i > Len(t) THEN Ok(<<>>, i)
    ELSE IF t[i] = 34 \/ t[i] < 32 THEN Fail
    ELSE IF t[i] # 92 THEN
        LET r == Unescape(t, i + 1)
        IN IF r.ok THEN Ok(<<t[i]>> \o r.val, r.next) ELSE Fail
    ELSE IF i + 1 > Len(t) THEN Fail
    ELSE IF t[i + 1] \in {34, 92, 47, 98, 102, 110, 114, 116} THEN
        LET c == CASE t[i + 1] = 98 -> 8
                   [] t[i + 1] = 102 -> 12
                   [] t[i + 1] = 110 -> 10
                   [] t[i + 1] = 114 -> 13
                   [] t[i + 1] = 116 -> 9
                   [] OTHER -> t[i + 1]
            r == Unescape(t, i + 2)
        IN IF r.ok THEN Ok(<<c>> \o r.val, r.next) ELSE Fail
    ELSE IF /\ t[i + 1] = 117
            /\ i + 5 <= Len(t)
            /\ \A n \in (i + 2)..(i + 5) : IsHex(t[n]) THEN
        LET c == 4096 * HexVal(t[i + 2]) + 256 * HexVal(t[i + 3])
                 + 16 * HexVal(t[i + 4]) + HexVal(t[i + 5])
            r == Unescape(t, i + 6)
        IN IF r.ok THEN Ok(<<c>> \o r.val, r.next) ELSE Fail
    ELSE Fail

\* json.scanner NUMBER_RE, for integers: -?(0|[1-9][0-9]*) and nothing after
\* it (fractions and exponents are left out)
IsInt(t) ==
    LET i == IF t # <<>> /\ t[1] = 45 THEN 2 ELSE 1
    IN /\ i <= Len(t)
       /\ AllDigits(t, i, Len(t))
       /\ t[i] = 48 => i = Len(t)

\* int(text)
ParseInt(t) ==
    IF t[1] = 45 THEN 0 - NumberAt(t, 2, Len(t)) ELSE NumberAt(t, 1, Len(t))

\* dict[name] = val: the last value of a name, at the place of the first
Put(kv, name, val) ==
    IF \E n \in 1..Len(kv) : kv[n].name = name
    THEN [n \in 1..Len(kv) |->
            IF kv[n].name = name THEN Member(name, val) ELSE kv[n]]
    ELSE Append(kv, Member(name, val))

\* json.scanner: the value that starts at place i of the tokens, and the
\* place behind it (NaN and Infinity are left out)
RECURSIVE ParseValue(_, _), ParseItems(_, _, _), ParseMembers(_, _, _)
ParseValue(t, i) ==
    IF i > Len(t) THEN Fail
    ELSE CASE t[i].k = "word" ->
                (CASE t[i].s = <<110, 117, 108, 108>> -> Ok(JNull, i + 1)
                   [] t[i].s = <<116, 114, 117, 101>> -> Ok(JBool(TRUE), i + 1)
                   [] t[i].s = <<102, 97, 108, 115, 101>> ->
                        Ok(JBool(FALSE), i + 1)
                   [] OTHER -> Fail)
           [] t[i].k = "num" ->
                IF IsInt(t[i].s) THEN Ok(JNum(ParseInt(t[i].s)), i + 1) ELSE Fail
           [] t[i].k = "str" ->
                LET r == Unescape(t[i].s, 1)
                IN IF r.ok THEN Ok(JStr(r.val), i + 1) ELSE Fail
           [] t[i].k = "[" ->
                IF i + 1 <= Len(t) /\ t[i + 1].k = "]"
                THEN Ok(JList(<<>>), i + 2)
                ELSE ParseItems(t, i + 1, <<>>)
           [] t[i].k = "{" ->
                IF i + 1 <= Len(t) /\ t[i + 1].k = "}"
                THEN Ok(JObj(<<>>), i + 2)
                ELSE ParseMembers(t, i + 1, <<>>)
           [] OTHER -> Fail

ParseItems(t, i, acc) ==
    LET r == ParseValue(t, i)
    IN IF ~r.ok \/ r.next > Len(t) THEN Fail
       ELSE IF t[r.next].k = "," THEN
            ParseItems(t, r.next + 1, Append(acc, r.val))
       ELSE IF t[r.next].k = "]" THEN
            Ok(JList(Append(acc, r.val)), r.next + 1)
       ELSE Fail

ParseMembers(t, i, acc) ==
    IF i + 1 > Len(t) \/ t[i].k # "key" \/ t[i + 1].k # ":" THEN Fail
    ELSE LET r == ParseValue(t, i + 2)
         IN IF ~r.ok \/ r.next > Len(t) THEN Fail
            ELSE IF t[r.next].k = "," THEN
                ParseMembers(t, r.next + 1, Put(acc, t[i].n, r.val))
            ELSE IF t[r.next].k = "}" THEN
                Ok(JObj(Put(acc, t[i].n, r.val)), r.next + 1)
            ELSE Fail

\* json.load: one value and nothing behind it, or a JSONDecodeError
Load(text) ==
    LET r == ParseValue(text, 1)
    IN IF r.ok /\ r.next = Len(text) + 1 THEN r ELSE Fail

\* lines 51-58: read_json(path), from the call to the return; a file with
\* bytes that do not decode raises UnicodeDecodeError, which is not a
\* JSONDecodeError and leaves read_json
read_json(path) ==
    /\ l_pc = "idle"
    /\ l_path' = path
    /\ IF ~fs[path].there THEN
            l_pc' = "returned" /\ l_ret' = None
       ELSE IF ~Decodes(fs[path].text) THEN
            l_pc' = "raised" /\ l_ret' = None
       ELSE IF Load(fs[path].text).ok THEN
            l_pc' = "returned" /\ l_ret' = Load(fs[path].text).val
       ELSE l_pc' = "returned" /\ l_ret' = None
    /\ UNCHANGED <<fs, w_pc, w_path, w_obj, w_old>>

----------------------------------------------------------------------------
(* DERIVED DATA: build_last_production_from_stock *)

\* the key used as it comes, not stripped
ProdCodeNoStrip(e) == Str(OrElse(Get(e, "kode_produk"), JStr(<<>>)))

\* lines 161-162: prod_code of an entry
ProdCode(e) == Strip(Str(OrElse(Get(e, "kode_produk"), JStr(<<>>))))

\* latest_map.get(prod_code): the place of the item, 0 for None
RECURSIVE Find(_, _, _)
Find(map, code, i) ==
    IF i > Len(map) THEN 0
    ELSE IF map[i].code = code THEN i
    ELSE Find(map, code, i + 1)

Item(code, date_obj, e) == [code |-> code, date |-> date_obj, entry |-> e]

\* the earlier date wins
ReplacesIfEarlier(date_obj, prev_date) ==
    date_obj # None /\ (prev_date = None \/ date_obj.v < prev_date.v)

\* a dated entry never takes the place of an undated one
ReplacesOnlyDated(date_obj, prev_date) ==
    date_obj # None /\ prev_date # None /\ date_obj.v > prev_date.v

\* an equal date takes the place of the current entry too
ReplacesOnTie(date_obj, prev_date) ==
    date_obj # None /\ (prev_date = None \/ date_obj.v >= prev_date.v)

\* an entry without a date takes the place of the current one too
ReplacesWhenUndated(date_obj, prev_date) ==
    date_obj = None \/ prev_date = None \/ date_obj.v > prev_date.v

\* lines 186-191: does the new entry take the place of the current one
Replaces(date_obj, prev_date) ==
    date_obj # None /\ (prev_date = None \/ date_obj.v > prev_date.v)

\* lines 160-191: the body of the loop for an entry that is a dict
ProcessEntry(map, e) ==
    LET prod_code == ProdCode(e)
        date_obj == ParseDate(e)
        current == Find(map, prod_code, 1)
    IN IF prod_code = <<>> THEN map
       ELSE IF current = 0 THEN Append(map, Item(prod_code, date_obj, e))
       ELSE IF Replaces(date_obj, map[current].date)
            THEN [map EXCEPT ![current] = Item(prod_code, date_obj, e)]
            ELSE map

\* line 161: e.get raises AttributeError when e is not a dict
EntryRaises(e) == e.t # "obj"

\* a missing or empty field becomes the placeholder "-"
ProjectPlaceholder(entry) ==
    JObj(<< Member("date", OrElse(Get(entry, "srs_date"), JStr(<<45>>))),
            Member("customer", OrElse(Get(entry, "srs_customer"), JStr(<<45>>))),
            Member("product_code", OrElse(Get(entry, "kode_produk"), None)) >>)

\* lines 196-200: the snapshot of a winning entry
Project(entry) ==
    JObj(<< Member("date", OrElse(Get(entry, "srs_date"), None)),
            Member("customer", OrElse(Get(entry, "srs_customer"), None)),
            Member("product_code", OrElse(Get(entry, "kode_produk"), None)) >>)

RECURSIVE ProjectAll(_, _)
ProjectAll(map, i) ==
    IF i > Len(map) THEN <<>>
    ELSE <<Project(map[i].entry)>> \o ProjectAll(map, i + 1)

\* line 203: the sort key
SortKey(x) == OrElse(Get(x, "product_code"), JStr(<<>>))

\* the < of two sort keys; Python raises TypeError unless both are strings
\* or both are numbers
KeyLess(a, b) == IF a.t = "str" THEN StrLess(a.v, b.v) ELSE a.v < b.v

SortRaises(out) ==
    \E i, j \in 1..Len(out) :
        (SortKey(out[i]).t = "str") # (SortKey(out[j]).t = "str")

\* x put into a sorted list, behind the items that are not greater
RECURSIVE Insert(_, _)
Insert(sorted, x) ==
    IF sorted = <<>> THEN <<x>>
    ELSE IF KeyLess(SortKey(x), SortKey(Head(sorted))) THEN <<x>> \o sorted
    ELSE <<Head(sorted)>> \o Insert(Tail(sorted), x)

\* line 203: out.sort(key=...), a stable sort
RECURSIVE Sort(_, _)
Sort(out, i) ==
    IF i = 0 THEN <<>> ELSE Insert(Sort(out, i - 1), out[i])

\* lines 194-204
Finish(map) == Sort(ProjectAll(map, 1), Len(map))

Returned(out) == [raised |-> FALSE, out |-> out]
Raised == [raised |-> TRUE, out |-> <<>>]

\* lines 159-191: the loop over entries from the i-th on
RECURSIVE Loop(_, _, _)
Loop(map, es, i) ==
    IF i > Len(es) THEN
        (IF SortRaises(ProjectAll(map, 1)) THEN Raised ELSE Returned(Finish(map)))
    ELSE IF EntryRaises(es[i]) THEN Raised
    ELSE Loop(ProcessEntry(map, es[i]), es, i + 1)

\* the function as a whole: what it returns, or that it raises
build_last_production_from_stock(stock_json) ==
    IF ~Truthy(stock_json) \/ stock_json.t # "obj" THEN Returned(<<>>)
    ELSE LET data_list == IF HasKey(stock_json, "data")
                          THEN Get(stock_json, "data") ELSE JList(<<>>)
         IN IF data_list.t # "list" THEN Returned(<<>>)
            ELSE Loop(<<>>, data_list.v, 1)

ReduceIdle ==
    /\ r_pc = "idle"
    /\ entries = <<>>
    /\ latest_map = <<>>
    /\ r_out = <<>>

\* lines 159-191: the loop takes the next entry e of the data list
BuildStep(e) ==
    /\ r_pc = "loop"
    /\ entries' = Append(entries, e)
    /\ IF EntryRaises(e)
       THEN r_pc' = "raised" /\ latest_map' = latest_map
       ELSE r_pc' = "loop" /\ latest_map' = ProcessEntry(latest_map, e)
    /\ r_out' = r_out

\* lines 193-204: the data list is exhausted; project, sort and return
BuildFinish ==
    /\ r_pc = "loop"
    /\ IF SortRaises(ProjectAll(latest_map, 1))
       THEN r_pc' = "raised" /\ r_out' = r_out
       ELSE r_pc' = "done" /\ r_out' = Finish(latest_map)
    /\ UNCHANGED <<entries, latest_map>>

----------------------------------------------------------------------------
(* MAIN FLOW: main *)

NotFetched == [state |-> "none", ret |-> None, derived |-> ""]

MainIdle ==
    /\ m_pc = "idle"
    /\ flow = 0
    /\ data = None
    /\ all_ok = TRUE
    /\ exit_status = -1
    /\ fetched = [i \in 1..Len(urls) |-> NotFetched]
    /\ fs0 = fs

\* the locals of a call that has returned are gone
FetchForgotten ==
    /\ f_pc' = "Idle"
    /\ f_url' = ""
    /\ attempt' = 0
    /\ f_ret' = None
    /\ f_hist' = <<>>
    /\ f_slept' = 0

StoreForgotten ==
    /\ w_pc' = "idle"
    /\ w_path' = ""
    /\ w_obj' = None
    /\ w_old' = fs
    /\ fs' = fs
    /\ UNCHANGED loadVars

\* the next turn of the loop over urls
NextFlow ==
    /\ flow' = flow + 1
    /\ data' = None
    /\ m_pc' = "loop"

\* every fetch is taken for a success
IsFetchedAlways(x) == TRUE

\* line 224: data is not None
IsFetched(x) == x # None

\* lines 221-223: the loop takes the next url and calls fetch_json
MainFetch ==
    /\ m_pc = "loop"
    /\ flow <= Len(urls)
    /\ fetch_json(urls[flow].url)
    /\ m_pc' = "fetch"
    /\ UNCHANGED <<flow, data, all_ok, exit_status, fetched, fs0>>
    /\ UNCHANGED <<storeVars, reduceVars>>

\* lines 224-225: the fetch returned a payload; write_json(path, data)
MainSave ==
    /\ m_pc = "fetch"
    /\ FetchReturned
    /\ IsFetched(f_ret)
    /\ data' = f_ret
    /\ fetched' = [fetched EXCEPT ![flow] = [state |-> f_pc, ret |-> f_ret, derived |-> ""]]
    /\ write_json(urls[flow].path, f_ret)
    /\ m_pc' = "save"
    /\ FetchForgotten
    /\ UNCHANGED <<flow, all_ok, exit_status, fs0, reduceVars>>

\* lines 236-238: the fetch returned None
MainFetchFailed ==
    /\ m_pc = "fetch"
    /\ FetchReturned
    /\ ~IsFetched(f_ret)
    /\ fetched' = [fetched EXCEPT ![flow] = [state |-> f_pc, ret |-> f_ret, derived |-> ""]]
    /\ all_ok' = FALSE
    /\ NextFlow
    /\ FetchForgotten
    /\ UNCHANGED <<exit_status, fs0, storeVars, reduceVars>>

\* lines 226-229: the raw file is saved and the flow is not the stock flow
MainSaved ==
    /\ m_pc = "save"
    /\ w_pc = "done"
    /\ urls[flow].path # STOCK_REQUEST_FILE
    /\ NextFlow
    /\ StoreForgotten
    /\ UNCHANGED <<all_ok, exit_status, fetched, fs0, fetchVars, reduceVars>>

\* lines 229-232: the stock file is saved; the reduction returns and
\* write_json(LAST_PRODUCTION_FILE, last_prod) is called
MainBuild ==
    /\ m_pc = "save"
    /\ w_pc = "done"
    /\ urls[flow].path = STOCK_REQUEST_FILE
    /\ ~build_last_production_from_stock(data).raised
    /\ w_pc' = "open"
    /\ w_path' = LAST_PRODUCTION_FILE
    /\ w_obj' = JList(build_last_production_from_stock(data).out)
    /\ w_old' = fs
    /\ fs' = fs
    /\ UNCHANGED loadVars
    /\ m_pc' = "save_derived"
    /\ UNCHANGED <<flow, data, all_ok, exit_status, fetched, fs0>>
    /\ UNCHANGED <<fetchVars, reduceVars>>

\* lines 231 and 234-235: the reduction raises; the exception is caught
MainBuildRaises ==
    /\ m_pc = "save"
    /\ w_pc = "done"
    /\ urls[flow].path = STOCK_REQUEST_FILE
    /\ build_last_production_from_stock(data).raised
    /\ NextFlow
    /\ StoreForgotten
    /\ fetched' = [fetched EXCEPT ![flow].derived = "Failed building"]
    /\ UNCHANGED <<all_ok, exit_status, fs0, fetchVars, reduceVars>>

\* line 225: write_json raises outside any try; the exception leaves main and
\* the interpreter ends the process with status 1
MainSaveRaises ==
    /\ m_pc = "save"
    /\ w_pc = "raised"
    /\ m_pc' = "exited"
    /\ exit_status' = 1
    /\ UNCHANGED <<flow, data, all_ok, fetched, fs0>>
    /\ UNCHANGED <<fetchVars, storeVars, reduceVars>>

\* lines 232-233: the derived file is saved
MainDerivedSaved ==
    /\ m_pc = "save_derived"
    /\ w_pc = "done"
    /\ NextFlow
    /\ StoreForgotten
    /\ fetched' = [fetched EXCEPT ![flow].derived = "Saved"]
    /\ UNCHANGED <<all_ok, exit_status, fs0, fetchVars, reduceVars>>

\* lines 232 and 234-235: write_json raises inside the try; it is caught
MainDerivedRaises ==
    /\ m_pc = "save_derived"
    /\ w_pc = "raised"
    /\ NextFlow
    /\ StoreForgotten
    /\ fetched' = [fetched EXCEPT ![flow].derived = "Failed building"]
    /\ UNCHANGED <<all_ok, exit_status, fs0, fetchVars, reduceVars>>

\* lines 240-245 and 249: the loop is over; SystemExit(0 or 1)
MainReturn ==
    /\ m_pc = "loop"
    /\ flow > Len(urls)
    /\ exit_status' = IF all_ok THEN 0 ELSE 1
    /\ m_pc' = "exited"
    /\ UNCHANGED <<flow, data, all_ok, fetched, fs0>>
    /\ UNCHANGED <<fetchVars, storeVars, reduceVars>>

----------------------------------------------------------------------------
(* fetch_json alone: one call, for any of the three urls *)

NoFiles == [p \in AllPaths |-> Absent]

InitFetch ==
    /\ f_pc = "Attempting"
    /\ f_url \in {urls[i].url : i \in 1..Len(urls)}
    /\ attempt = 1
    /\ f_ret = None
    /\ f_hist = <<>>
    /\ f_slept = 0
    /\ fs = NoFiles
    /\ StoreIdle
    /\ ReduceIdle
    /\ MainIdle

NextFetch ==
    \/ AttemptOk /\ UNCHANGED <<storeVars, reduceVars, mainVars>>
    \/ AttemptTransient /\ UNCHANGED <<storeVars, reduceVars, mainVars>>
    \/ RetrySleep /\ UNCHANGED <<storeVars, reduceVars, mainVars>>
    \/ AttemptPermanent /\ UNCHANGED <<storeVars, reduceVars, mainVars>>

SpecFetch == InitFetch /\ [][NextFetch]_vars

\* requests.get returns or raises within HTTP_TIMEOUT and time.sleep returns:
\* a call that can take a step takes it
FairSpecFetch == SpecFetch /\ WF_vars(NextFetch)

AllTransient(n) == \A i \in 1..n : f_hist[i].kind \in TransientErrors

\* C1: if the first k attempts (0 <= k < RETRY_LIMIT) fail with a transient
\* error and attempt k+1 gets a good response with a JSON body, fetch_json
\* returns Success (a value main does not take for a failure, i.e. not None)
\* carrying that body, after exactly k+1 attempts.
C1_TransientThenSuccess ==
    \A k \in 0..(RETRY_LIMIT - 1) :
        (/\ Len(f_hist) = k + 1
         /\ f_hist[k + 1].kind = "ok"
         /\ AllTransient(k))
        => (/\ f_pc = "Success"
            /\ f_ret = f_hist[k + 1].body
            /\ f_ret # None
            /\ attempt = k + 1)

\* C2: a permanent failure on attempt n ends the fetch at once: Failure (None)
\* is returned, no attempt follows attempt n and no delay is waited after it.
C2_PermanentEndsFetch ==
    \A n \in 1..Len(f_hist) :
        f_hist[n].kind \in PermanentErrors
        => (/\ n = Len(f_hist)
            /\ attempt = n
            /\ f_pc = "PermanentFailure"
            /\ f_ret = None
            /\ f_slept = RETRY_DELAY * (n - 1)
            /\ ~ENABLED NextFetch)

C2_Witness ==
    /\ Len(f_hist) = 2
    /\ f_hist[1].kind = "Timeout"
    /\ f_hist[2].kind = "JSONDecodeError"
    /\ f_pc = "PermanentFailure"

C3_Safe ==
    /\ f_pc \in {"Attempting", "RetryWait", "Success", "PermanentFailure",
                 "TransientFailure"}
    /\ attempt \in 1..RETRY_LIMIT
    /\ Len(f_hist) <= RETRY_LIMIT
    /\ FetchReturned => (Len(f_hist) = attempt /\ ~ENABLED NextFetch)
    /\ f_pc = "TransientFailure"
        <=> (Len(f_hist) = RETRY_LIMIT /\ AllTransient(RETRY_LIMIT))
    /\ f_pc = "TransientFailure" => f_ret = None
    /\ f_pc = "Success" <=> (f_hist # <<>> /\ f_hist[Len(f_hist)].kind = "ok")
    /\ f_pc = "PermanentFailure"
        <=> (f_hist # <<>> /\ f_hist[Len(f_hist)].kind \in PermanentErrors)

\* C3: every call of fetch_json ends, in exactly one of Success,
\* PermanentFailure and TransientFailure, after at most RETRY_LIMIT attempts,
\* and in TransientFailure (returning None) exactly when all RETRY_LIMIT
\* attempts failed with a transient error.
C3_TerminatesWithinLimit == [](C3_Safe) /\ <>[](FetchReturned)

C3_Witness ==
    /\ f_pc = "TransientFailure"
    /\ Len(f_hist) = RETRY_LIMIT
    /\ f_hist[1].kind = "Timeout"
    /\ f_hist[RETRY_LIMIT].kind = "ConnectionError"


\* C16: fetch_json waits RETRY_DELAY exactly once after each transient
\* failure that is followed by another attempt, and never otherwise: a fetch
\* that ends after n attempts has waited n-1 times; every wait is of
\* RETRY_DELAY seconds, comes after a transient failure on an attempt before
\* the last and leads to the next attempt; no attempt but the first starts
\* without a wait; a fetch that has returned waits no more.
C16_WaitsBetweenAttempts ==
    /\ [](FetchReturned => f_slept = RETRY_DELAY * (Len(f_hist) - 1))
    /\ [][f_slept' # f_slept =>
            /\ ~FetchReturned
            /\ f_hist # <<>>
            /\ f_hist[Len(f_hist)].kind \in TransientErrors
            /\ Len(f_hist) < RETRY_LIMIT
            /\ f_slept' = f_slept + RETRY_DELAY
            /\ attempt' = attempt + 1
            /\ f_pc' = "Attempting"]_vars
    /\ [][attempt' # attempt => f_slept' # f_slept]_vars

\* two timeouts, two waits, then a good response on the last attempt
C16_Witness ==
    /\ f_pc = "Success"
    /\ Len(f_hist) = RETRY_LIMIT
    /\ f_hist[1].kind \in TransientErrors
    /\ f_hist[2].kind \in TransientErrors
    /\ f_slept = RETRY_DELAY + RETRY_DELAY

----------------------------------------------------------------------------
(* write_json alone: one call, over what the two files held before *)

\* what a file may hold from earlier runs: nothing, a document, or the
\* leftover of a write that broke off
OldFiles == {Absent, File(Dump(JObj(<<>>))), File(Dump(StockBody(<<RecA1>>)))}
Leftovers == {Absent, File(<<Punct("{"), Key("data")>>)}

StoreValues == (PlainBodies \cup StockBodies) \ {None}

InitStore ==
    /\ FetchIdle
    /\ w_pc = "open"
    /\ w_path \in FinalPaths
    /\ w_obj \in StoreValues
    /\ \E old \in OldFiles, left \in Leftovers :
        fs = [p \in AllPaths |->
                IF p = w_path THEN old
                ELSE IF p = TmpOf(w_path) THEN left
                ELSE Absent]
    /\ w_old = fs
    /\ LoadIdle
    /\ ReduceIdle
    /\ MainIdle

NextStore ==
    \/ WOpen /\ UNCHANGED <<fetchVars, reduceVars, mainVars>>
    \/ WOpenRaises /\ UNCHANGED <<fetchVars, reduceVars, mainVars>>
    \/ WDump /\ UNCHANGED <<fetchVars, reduceVars, mainVars>>
    \/ WDumpRaises /\ UNCHANGED <<fetchVars, reduceVars, mainVars>>
    \/ WReplace /\ UNCHANGED <<fetchVars, reduceVars, mainVars>>
    \/ WReplaceRaises /\ UNCHANGED <<fetchVars, reduceVars, mainVars>>
    \/ WCrash /\ UNCHANGED <<fetchVars, reduceVars, mainVars>>

SpecStore == InitStore /\ [][NextStore]_vars

\* C7: at every point of write_json(path, obj), a crash or an error at any
\* step included, the final location holds the complete old document (or is
\* absent as before) or the complete new document, and no other final
\* location changes; the partial document is only ever at the temporary
\* location.
C7_FinalNeverPartial ==
    \A p \in FinalPaths :
        \/ fs[p] = w_old[p]
        \/ p = w_path /\ fs[p] = File(Dump(w_obj))

\* the process died with half the document written, and the old one in place
C7_Witness ==
    /\ w_pc = "crashed"
    /\ w_old[w_path].there
    /\ fs[w_path] = w_old[w_path]
    /\ fs[TmpOf(w_path)].there
    /\ Len(fs[TmpOf(w_path)].text) \in 1..(Len(Dump(w_obj)) - 1)
    /\ fs[w_path] # File(Dump(w_obj))

----------------------------------------------------------------------------
(* read_json and write_json together: one process that may write a file and
   then, or a later process that may, read one *)

\* X, a quote, a backslash, a line feed, a bell, a slash
Awkward == JStr(<<88, 34, 92, 10, 7, 47>>)

LoadValues ==
    {JNull, JBool(FALSE), JBool(TRUE), JNum(0), JNum(0 - 7), JList(<<>>),
     JObj(<<>>), Awkward, JList(<<Awkward, JNum(120)>>),
     StockBody(<<RecA1, JNum(7)>>)}

\* what the files may hold when the process starts: nothing, a document, an
\* empty file, a document cut short, text that is not JSON ("hello"), a
\* document with something behind it, bytes that are not UTF-8
Contents ==
    {Absent,
     File(Dump(StockBody(<<RecA1>>))),
     File(<<>>),
     File(<<Punct("{"), Key("data")>>),
     File(<<Tok("word", <<104, 101, 108, 108, 111>>)>>),
     File(Dump(JList(<<>>)) \o Dump(JNum(0))),
     File(<<Punct("["), BadByte>>)}

InitLoad ==
    /\ FetchIdle
    /\ \E old \in Contents, left \in Leftovers :
        fs = [p \in AllPaths |-> IF p \in FinalPaths THEN old ELSE left]
    /\ StoreIdle
    /\ ReduceIdle
    /\ MainIdle

CallWrite ==
    /\ w_pc = "idle"
    /\ l_pc = "idle"
    /\ \E p \in FinalPaths, v \in LoadValues : write_json(p, v)
    /\ UNCHANGED <<fetchVars, reduceVars, mainVars>>

\* read_json is called when no write_json is under way
CallRead ==
    /\ w_pc \in {"idle", "done", "raised", "crashed"}
    /\ \E p \in FinalPaths : read_json(p)
    /\ UNCHANGED <<fetchVars, reduceVars, mainVars>>

NextLoad ==
    \/ CallWrite
    \/ WOpen /\ UNCHANGED <<fetchVars, reduceVars, mainVars>>
    \/ WOpenRaises /\ UNCHANGED <<fetchVars, reduceVars, mainVars>>
    \/ WDump /\ UNCHANGED <<fetchVars, reduceVars, mainVars>>
    \/ WDumpRaises /\ UNCHANGED <<fetchVars, reduceVars, mainVars>>
    \/ WReplace /\ UNCHANGED <<fetchVars, reduceVars, mainVars>>
    \/ WReplaceRaises /\ UNCHANGED <<fetchVars, reduceVars, mainVars>>
    \/ WCrash /\ UNCHANGED <<fetchVars, reduceVars, mainVars>>
    \/ CallRead

SpecLoad == InitLoad /\ [][NextLoad]_vars

\* C13: write_json(p, v) followed by read_json(p), with no write to p in
\* between, returns a value equal to v, whatever p held before.
C13_RoundTrip ==
    (l_pc # "idle" /\ w_pc = "done" /\ l_path = w_path) =>
        (l_pc = "returned" /\ l_ret = w_obj)

\* a list with the awkward string, written over bytes that are not UTF-8
C13_Witness ==
    /\ w_pc = "done"
    /\ l_pc = "returned"
    /\ l_path = w_path
    /\ w_old[w_path] = File(<<Punct("["), BadByte>>)
    /\ w_obj = JList(<<Awkward, JNum(120)>>)
    /\ fs[w_path].text[2].s # Awkward.v
    /\ l_ret = w_obj

\* the complete documents of the model, and a file that holds none of them
Documents == {Dump(v) : v \in LoadValues \cup {StockBody(<<RecA1>>)}}
Corrupt(f) == f.there /\ f.text \notin Documents

\* C14: read_json never raises: it returns None when the file does not exist
\* and when its content is corrupted in any way (cut short, not JSON, bytes
\* that are not UTF-8); a read after a crash in the middle of write_json
\* returns None or a complete document.
C14_ReadNeverRaises ==
    l_pc # "idle" =>
        /\ l_pc = "returned"
        /\ (~fs[l_path].there \/ Corrupt(fs[l_path])) => l_ret = None
        /\ w_pc = "crashed" =>
            l_ret = None \/ fs[l_path] = File(Dump(l_ret))

----------------------------------------------------------------------------
(* build_last_production_from_stock alone, over data lists of up to MaxLen
   entries *)

MaxLen == 3

\* "" and " "; a missing key is None
BlankKeys == {None, JStr(<<>>), JStr(<<32>>)}
\* "not-a-date", "2024-01-10", "2024-02-15", "2024-1-10"; a missing date is
\* None
DateTexts ==
    {None,
     JStr(<<110, 111, 116, 45, 97, 45, 100, 97, 116, 101>>),
     JStr(<<50, 48, 50, 52, 45, 48, 49, 45, 49, 48>>),
     JStr(<<50, 48, 50, 52, 45, 48, 50, 45, 49, 53>>),
     JStr(<<50, 48, 50, 52, 45, 49, 45, 49, 48>>)}

\* the entries a data list is made of: records of "A1" with every date and
\* customer "X"; records of "B2" and " B2", dated and undated; records with
\* a blank key; the records of the payloads above (customer "Y", no
\* customer); and a number
Entries ==
    {Rec(JStr(<<65, 49>>), d, JStr(<<88>>)) : d \in DateTexts}
    \cup {Rec(JStr(<<66, 50>>), JStr(<<50, 48, 50, 52, 45, 48, 49, 45, 49, 48>>), JStr(<<88>>)),
          Rec(JStr(<<66, 50>>), None, JStr(<<88>>)),
          Rec(JStr(<<32, 66, 50>>), JStr(<<50, 48, 50, 52, 45, 48, 50, 45, 49, 53>>), JStr(<<88>>))}
    \cup {Rec(k, JStr(<<50, 48, 50, 52, 45, 48, 49, 45, 49, 48>>), JStr(<<88>>)) :
            k \in BlankKeys}
    \cup {RecA1Later, RecB2, JNum(7)}

InitReduce ==
    /\ FetchIdle
    /\ fs = NoFiles
    /\ StoreIdle
    /\ r_pc = "loop"
    /\ entries = <<>>
    /\ latest_map = <<>>
    /\ r_out = <<>>
    /\ MainIdle

ReadEntry ==
    /\ Len(entries) < MaxLen
    /\ \E e \in Entries : BuildStep(e)
    /\ UNCHANGED <<fetchVars, storeVars, mainVars>>

EndOfData == BuildFinish /\ UNCHANGED <<fetchVars, storeVars, mainVars>>

NextReduce == ReadEntry \/ EndOfData

SpecReduce == InitReduce /\ [][NextReduce]_vars

\* the records of the input with normalized key k, in input order
KeyOf(e) == Strip(Str(OrElse(Get(e, "kode_produk"), JStr(<<>>))))
InputKeys == {KeyOf(entries[i]) : i \in 1..Len(entries)} \ {<<>>}
RecordsOf(k) == {i \in 1..Len(entries) : KeyOf(entries[i]) = k}
SnapshotsOf(k) ==
    {i \in 1..Len(r_out) : Strip(Str(Get(r_out[i], "product_code"))) = k}
Dated(i) == ParseDate(entries[i]) # None

\* C8: the output has exactly one snapshot for each distinct non-empty
\* trimmed product code of the input and no other snapshot; records whose key
\* is missing, empty or blank contribute nothing.
C8_OneSnapshotPerKey ==
    r_pc = "done" =>
        /\ Len(r_out) = Cardinality(InputKeys)
        /\ \A k \in InputKeys : Cardinality(SnapshotsOf(k)) = 1
        /\ \A i \in 1..Len(r_out) :
            /\ Get(r_out[i], "product_code") # None
            /\ Strip(Str(Get(r_out[i], "product_code"))) \in InputKeys

\* two spellings of one key, a blank key: one snapshot
C8_Witness ==
    /\ r_pc = "done"
    /\ Len(entries) = 3
    /\ Get(entries[1], "kode_produk") = JStr(<<32, 66, 50>>)
    /\ Get(entries[2], "kode_produk") = JStr(<<32>>)
    /\ Get(entries[3], "kode_produk") = JStr(<<66, 50>>)
    /\ Len(r_out) = 1

\* C9: for every key with at least one record whose date parses, the
\* snapshot of the key is the projection of a record of that key whose parsed
\* date is the greatest of the key's parsed dates, in whatever order the
\* records come.
C9_LatestDateWins ==
    r_pc = "done" =>
        \A k \in InputKeys :
            (\E i \in RecordsOf(k) : Dated(i)) =>
                \E s \in SnapshotsOf(k), i \in RecordsOf(k) :
                    /\ Dated(i)
                    /\ r_out[s] = Project(entries[i])
                    /\ \A j \in RecordsOf(k) :
                        Dated(j) =>
                            ParseDate(entries[j]).v <= ParseDate(entries[i]).v

\* the later date first, the earlier second: the first record stays
C9_Witness ==
    /\ r_pc = "done"
    /\ Len(entries) = 2
    /\ entries[1] = RecA1Later
    /\ entries[2] = RecA1
    /\ r_out = <<Project(RecA1Later)>>

\* C10: when a key has exactly two records, one with a date that parses and
\* one with a date that does not parse or is absent, the snapshot of the key
\* is the projection of the one whose date parses, whichever comes first.
C10_ParseableBeatsUnparsable ==
    r_pc = "done" =>
        \A i, j \in 1..Len(entries) :
            (/\ i # j
             /\ KeyOf(entries[i]) # <<>>
             /\ RecordsOf(KeyOf(entries[i])) = {i, j}
             /\ Dated(i)
             /\ ~Dated(j))
            => \E s \in 1..Len(r_out) :
                /\ SnapshotsOf(KeyOf(entries[i])) = {s}
                /\ r_out[s] = Project(entries[i])

\* the undated record first, the dated one second: the second takes its place
C10_Witness ==
    /\ r_pc = "done"
    /\ Len(entries) = 2
    /\ entries[1] = Rec(JStr(<<65, 49>>),
                        JStr(<<110, 111, 116, 45, 97, 45, 100, 97, 116, 101>>),
                        JStr(<<88>>))
    /\ entries[2] = RecA1Later
    /\ r_out = <<Project(RecA1Later)>>

\* the records of key k that tie for the snapshot: those with the greatest
\* parsed date, or all of them when none has a date that parses
Best(k) ==
    LET dated == {i \in RecordsOf(k) : Dated(i)}
    IN IF dated = {} THEN RecordsOf(k)
       ELSE {i \in dated : \A j \in dated :
                ParseDate(entries[j]).v <= ParseDate(entries[i]).v}

FirstOf(S) == CHOOSE i \in S : \A j \in S : i <= j

\* C11: ties go to the record met first: when no record of a key has a date
\* that parses, the snapshot of the key is the projection of the key's first
\* record in input order; when several records share the key's greatest
\* parsed date, it is the projection of the first of those.
C11_FirstSeenWinsTies ==
    r_pc = "done" =>
        \A k \in InputKeys :
            \E s \in SnapshotsOf(k) :
                r_out[s] = Project(entries[FirstOf(Best(k))])

\* three records of "A1" on the same day, the second spelled "2024-1-10":
\* the first stays
C11_Witness ==
    /\ r_pc = "done"
    /\ Len(entries) = 3
    /\ entries[1] = RecA1
    /\ entries[2] = Rec(JStr(<<65, 49>>), JStr(<<50, 48, 50, 52, 45, 49, 45, 49, 48>>),
                        JStr(<<88>>))
    /\ entries[3] = Rec(JStr(<<65, 49>>), JStr(<<50, 48, 50, 52, 45, 48, 49, 45, 49, 48>>),
                        JStr(<<88>>))
    /\ Best(JStr(<<65, 49>>).v) = {1, 2, 3}
    /\ r_out = <<Project(RecA1)>>

\* the normalized key under which the record behind snapshot s was indexed
IndexedKey(s) == Strip(Str(Get(r_out[s], "product_code")))

\* C12: the snapshots come in ascending string order of product_code, the
\* product_code of a snapshot being the normalized (whitespace-trimmed) key
\* under which its record was indexed, and no two snapshots carry the same
\* product_code.
C12_SortedByNormalizedKey ==
    r_pc = "done" =>
        /\ \A s \in 1..Len(r_out) :
            Get(r_out[s], "product_code") = JStr(IndexedKey(s))
        /\ \A s \in 1..(Len(r_out) - 1) :
            StrLess(IndexedKey(s), IndexedKey(s + 1))

\* the entries of the data list that are objects
IsObject(e) == e.t = "obj"

\* C15: the reduction never raises on a malformed shape: entries of the data
\* list that are not objects, and records with missing fields, lead to a
\* normal return, the malformed entries being skipped.
C15_MalformedNeverRaises ==
    /\ r_pc # "raised"
    /\ r_pc = "done" =>
        Returned(r_out) =
            build_last_production_from_stock(
                StockBody(SelectSeq(entries, IsObject)))

\* the place in latest_map of the entry of normalized key k, if there is one
Indexed(k) == {i \in 1..Len(latest_map) : KeyOf(latest_map[i].entry) = k}

\* C19: during the pass over the records, latest_map has at most one entry
\* for a normalized key; an entry once made is never removed; the parsed date
\* of an entry never goes from a date to None and never decreases; a record
\* without a parsed date never takes the place of an entry; the first record
\* of a key is always put in, also without a parsed date.
C19_IndexDuringPass ==
    /\ [](\A i \in 1..Len(latest_map) :
            Indexed(KeyOf(latest_map[i].entry)) = {i})
    /\ [][\A i \in 1..Len(latest_map) :
            /\ i <= Len(latest_map')
            /\ KeyOf(latest_map'[i].entry) = KeyOf(latest_map[i].entry)
            /\ latest_map[i].date # None =>
                /\ latest_map'[i].date # None
                /\ latest_map'[i].date.v >= latest_map[i].date.v]_vars
    /\ [][(entries' # entries /\ r_pc' # "raised") =>
            LET e == entries'[Len(entries')]
                k == KeyOf(e)
            IN /\ (Indexed(k) # {} /\ ParseDate(e) = None) =>
                    latest_map' = latest_map
               /\ (Indexed(k) = {} /\ k # <<>>) =>
                    latest_map' = Append(latest_map, Item(k, ParseDate(e), e))]_vars

\* an undated record of "A1" was put in, a dated one took its place, and a
\* record without a date has left it there
C19_Witness ==
    /\ r_pc = "loop"
    /\ Len(entries) = 3
    /\ ParseDate(entries[1]) = None
    /\ entries[2] = RecA1Later
    /\ ParseDate(entries[3]) = None
    /\ KeyOf(entries[1]) = KeyOf(RecA1Later)
    /\ KeyOf(entries[3]) = KeyOf(RecA1Later)
    /\ latest_map = <<Item(KeyOf(RecA1Later), ParseDate(RecA1Later), RecA1Later)>>

----------------------------------------------------------------------------
(* build_last_production_from_stock over records with missing, null and
   empty fields, and the records of the end-to-end example *)

\* "B2", "not-a-date", "Z"
ExampleB2 ==
    Rec(JStr(<<66, 50>>),
        JStr(<<110, 111, 116, 45, 97, 45, 100, 97, 116, 101>>), JStr(<<90>>))

\* the records of the example; records of "A1" and "B2" with an empty date
\* and customer, with no date and customer, with a null date, with an
\* unparsable date and no customer, with a date and an empty customer
FieldRecords ==
    {RecA1, RecA1Later, ExampleB2,
     Rec(JStr(<<65, 49>>), JStr(<<>>), JStr(<<>>)),
     Rec(JStr(<<66, 50>>), None, None),
     JObj(<<Member("kode_produk", JStr(<<66, 50>>)), Member("srs_date", JNull),
            Member("srs_customer", JStr(<<90>>))>>),
     Rec(JStr(<<65, 49>>),
         JStr(<<110, 111, 116, 45, 97, 45, 100, 97, 116, 101>>), None),
     Rec(JStr(<<66, 50>>), JStr(<<50, 48, 50, 52, 45, 48, 49, 45, 49, 48>>),
         JStr(<<>>))}

ReadRecord ==
    /\ Len(entries) < MaxLen
    /\ \E e \in FieldRecords : BuildStep(e)
    /\ UNCHANGED <<fetchVars, storeVars, mainVars>>

NextFields == ReadRecord \/ EndOfData

SpecFields == InitReduce /\ [][NextFields]_vars

\* the record of key k that wins: the first of those that tie
Winner(k) == entries[FirstOf(Best(k))]

Snapshot(date, customer, product_code) ==
    JObj(<<Member("date", date), Member("customer", customer),
           Member("product_code", product_code)>>)

\* the example of the specification: its input and its output
ExampleHolds ==
    entries = <<RecA1, RecA1Later, ExampleB2>> =>
        r_out = << Snapshot(JStr(<<50, 48, 50, 52, 45, 48, 50, 45, 49, 53>>),
                            JStr(<<89>>), JStr(<<65, 49>>)),
                   Snapshot(JStr(<<110, 111, 116, 45, 97, 45, 100, 97, 116, 101>>),
                            JStr(<<90>>), JStr(<<66, 50>>)) >>

\* C18 as stated: the date of a snapshot is the srs_date of the winning
\* record as it is (also when it does not parse), its customer the record's
\* srs_customer, a missing field is null; the example input gives the example
\* output.
C18_SnapshotVerbatim ==
    r_pc = "done" =>
        /\ \A k \in InputKeys :
            \E s \in SnapshotsOf(k) :
                /\ Get(r_out[s], "date") = Get(Winner(k), "srs_date")
                /\ Get(r_out[s], "customer") = Get(Winner(k), "srs_customer")
        /\ ExampleHolds

\* a field as the snapshot carries it: null when it is missing, null or empty
NonEmpty(e, name) == IF Truthy(Get(e, name)) THEN Get(e, name) ELSE None

\* C18, amended: the date of a snapshot is the srs_date of the winning record
\* as it is (also when it does not parse) unless it is missing, null or
\* empty, and then null; likewise the customer and srs_customer; the example
\* input gives the example output.
C18_SnapshotNonEmptyFields ==
    r_pc = "done" =>
        /\ \A k \in InputKeys :
            \E s \in SnapshotsOf(k) :
                /\ Get(r_out[s], "date") = NonEmpty(Winner(k), "srs_date")
                /\ Get(r_out[s], "customer") = NonEmpty(Winner(k), "srs_customer")
        /\ ExampleHolds

\* a record with an empty date and customer wins its key: both are null
C18_Witness ==
    /\ r_pc = "done"
    /\ entries = <<ExampleB2, Rec(JStr(<<65, 49>>), JStr(<<>>), JStr(<<>>))>>
    /\ r_out = << Snapshot(None, None, JStr(<<65, 49>>)),
                  Snapshot(JStr(<<110, 111, 116, 45, 97, 45, 100, 97, 116, 101>>),
                           JStr(<<90>>), JStr(<<66, 50>>)) >>

----------------------------------------------------------------------------
(* main: one run, over an empty data directory or the files of an earlier
   run *)

\* the files an earlier run left
EarlierRun ==
    [p \in AllPaths |->
        IF p = LAST_PRODUCTION_FILE THEN File(Dump(JList(<<Project(RecB2)>>)))
        ELSE IF p = STOCK_REQUEST_FILE THEN File(Dump(StockBody(<<RecB2>>)))
        ELSE IF p \in FinalPaths THEN File(Dump(JList(<<JNum(2)>>)))
        ELSE Absent]

InitMain ==
    /\ FetchIdle
    /\ fs \in {NoFiles, EarlierRun}
    /\ StoreIdle
    /\ ReduceIdle
    /\ m_pc = "loop"
    /\ flow = 1
    /\ data = None
    /\ all_ok = TRUE
    /\ exit_status = -1
    /\ fetched = [i \in 1..Len(urls) |-> NotFetched]
    /\ fs0 = fs

NextMain ==
    \/ MainFetch
    \/ m_pc = "fetch" /\ AttemptOk /\ UNCHANGED <<storeVars, reduceVars, mainVars>>
    \/ m_pc = "fetch" /\ AttemptTransient /\ UNCHANGED <<storeVars, reduceVars, mainVars>>
    \/ m_pc = "fetch" /\ RetrySleep /\ UNCHANGED <<storeVars, reduceVars, mainVars>>
    \/ m_pc = "fetch" /\ AttemptPermanent /\ UNCHANGED <<storeVars, reduceVars, mainVars>>
    \/ MainSave
    \/ MainFetchFailed
    \/ WOpen /\ UNCHANGED <<fetchVars, reduceVars, mainVars>>
    \/ WOpenRaises /\ UNCHANGED <<fetchVars, reduceVars, mainVars>>
    \/ WDump /\ UNCHANGED <<fetchVars, reduceVars, mainVars>>
    \/ WDumpRaises /\ UNCHANGED <<fetchVars, reduceVars, mainVars>>
    \/ WReplace /\ UNCHANGED <<fetchVars, reduceVars, mainVars>>
    \/ WReplaceRaises /\ UNCHANGED <<fetchVars, reduceVars, mainVars>>
    \/ MainSaved
    \/ MainBuild
    \/ MainBuildRaises
    \/ MainSaveRaises
    \/ MainDerivedSaved
    \/ MainDerivedRaises
    \/ MainReturn

SpecMain == InitMain /\ [][NextMain]_vars

\* the fetch of flow i returned None: what main takes for a failed fetch
FetchFailed(i) == fetched[i].state # "none" /\ fetched[i].ret = None

\* C4: the run's exit status is 1 if and only if the fetch of at least one
\* of the three flows failed, and 0 otherwise; a failure while reducing, or
\* while persisting the derived file or a raw file, never changes it.
C4_ExitStatusFromFetches ==
    m_pc = "exited" =>
        exit_status = IF \E i \in 1..Len(urls) : FetchFailed(i) THEN 1 ELSE 0

\* C5: an error inside one flow never aborts the other flows: when the run
\* ends, each of the three flows has been fetched.
C5_EveryFlowFetched ==
    m_pc = "exited" => \A i \in 1..Len(urls) : fetched[i].state # "none"

\* C6: when the fetch of a flow ends in Failure, nothing is persisted for
\* the flow: its destination file (and the temporary file beside it) holds
\* what it held before the run, and so does last_production.json when the
\* flow is the stock flow.
C6_FailedFetchKeepsFiles ==
    \A i \in 1..Len(urls) :
        FetchFailed(i) =>
            /\ fs[urls[i].path] = fs0[urls[i].path]
            /\ fs[TmpOf(urls[i].path)] = fs0[TmpOf(urls[i].path)]
            /\ urls[i].path = STOCK_REQUEST_FILE =>
                /\ fs[LAST_PRODUCTION_FILE] = fs0[LAST_PRODUCTION_FILE]
                /\ fs[TmpOf(LAST_PRODUCTION_FILE)] = fs0[TmpOf(LAST_PRODUCTION_FILE)]

\* the stock fetch fails after three timeouts, the other two flows are saved
C6_Witness ==
    /\ m_pc = "exited"
    /\ fs0 = EarlierRun
    /\ fetched[2].state = "TransientFailure"
    /\ fs[STOCK_REQUEST_FILE] = fs0[STOCK_REQUEST_FILE]
    /\ fs[LAST_PRODUCTION_FILE] = fs0[LAST_PRODUCTION_FILE]
    /\ fs[SAMPLE_REQUEST_FILE] = File(Dump(fetched[1].ret))
    /\ fs[SALES_ORDER_FILE] = File(Dump(fetched[3].ret))
    /\ fs[SAMPLE_REQUEST_FILE] # fs0[SAMPLE_REQUEST_FILE]
    /\ fs[SALES_ORDER_FILE] # fs0[SALES_ORDER_FILE]

\* C17: for every flow whose fetch gets a good response with a JSON body,
\* whatever value the body is (null, false, 0, [] and {} included), main
\* writes that payload to the flow's file and counts the flow as succeeded:
\* once main has gone on to the next url the file holds the payload, and
\* all_ok is TRUE as long as every fetch so far got a good response.
C17_AnyPayloadPersisted ==
    /\ \A i \in 1..Len(urls) :
        (fetched[i].state = "Success" /\ flow > i) =>
            fs[urls[i].path] = File(Dump(fetched[i].ret))
    /\ (\A i \in 1..Len(urls) : fetched[i].state \in {"none", "Success"})
        => all_ok

\* the document last_production.json holds when the list out was saved
Derived(out) == File(Dump(JList(out)))

\* C20: last_production.json is replaced only after stock_requests.json has
\* been replaced with the freshly fetched payload, never in a run whose stock
\* fetch failed; at the end of a run where the stock fetch got a good
\* response and neither the reduction nor a write failed, last_production.json
\* holds the reduction of the payload stock_requests.json then holds, whatever
\* the files held before.
C20_DerivedFollowsStock ==
    /\ fs[LAST_PRODUCTION_FILE] # fs0[LAST_PRODUCTION_FILE] =>
        /\ fetched[2].state = "Success"
        /\ fs[STOCK_REQUEST_FILE] = File(Dump(fetched[2].ret))
    /\ (/\ m_pc = "exited"
        /\ flow > Len(urls)
        /\ fetched[2].state = "Success"
        /\ fetched[2].derived # "Failed building") =>
            fs[LAST_PRODUCTION_FILE] =
                Derived(build_last_production_from_stock(
                            Load(fs[STOCK_REQUEST_FILE].text).val).out)
============================================================================
